---------------------------- MODULE Spec2Model ----------------------------
(***************************************************************************)
(* Knuth-Morris-Pratt search (src/Knuth-Morris-Pratt.rs).                  *)
(*                                                                         *)
(* kmp_search(haystack, needle) and its helper compute_lps_table(needle)   *)
(* are modelled as one state machine.  A state is the position of the      *)
(* running call (pc) together with the locals of the two functions.  One   *)
(* action is one loop iteration (or the code before / after a loop).       *)
(* Rust slices are 0-based; TLA+ sequences are 1-based, so every slice     *)
(* access goes through At and WriteAt.                                     *)
(***************************************************************************)
EXTENDS Integers, Sequences, FiniteSets

(* ------------------------------ bounds -------------------------------- *)

\* longest haystack handed to kmp_search
MaxHay == 7
\* longest needle handed to kmp_search
MaxNeedle == 5
\* longest needle handed to compute_lps_table when it is called on its own
MaxPat == 6

\* element type T of kmp_search calls (T: PartialEq)
Alphabet == {"a", "b"}
\* element type T of stand-alone compute_lps_table calls
PatAlphabet == {"a", "b", "c"}

SeqsUpTo(S, n) == UNION {[1..k -> S] : k \in 0..n}

(* --------------------------- slice helpers ---------------------------- *)

\* s[idx] on a 0-based slice
At(s, idx) == s[idx + 1]

\* s[idx] = v on a 0-based Vec
WriteAt(s, idx, v) == [s EXCEPT ![idx + 1] = v]

\* vec![0; n]
Zeros(n) == [x \in 1..n |-> 0]

(* ------------------- compute_lps_table, one iteration ----------------- *)

\* line 90 with an off-by-one index
LpsFallbackOffByOne(l, len) == At(l, len)

\* line 90 restarting from scratch instead of following the failure link
LpsFallbackReset(l, len) == 0

\* line 90: length = lps[length - 1]
LpsFallback(l, len) == At(l, len - 1)

\* lines 80-96: the body of the while loop of compute_lps_table, entered with
\* li < needle.len().  kind names the branch taken, err the first access of
\* the iteration that is out of bounds ("none" when all are in bounds).
LpsBody(nd, l, len, li) ==
    LET stay(e) == [lps |-> l, length |-> len, i |-> li, kind |-> "panic", err |-> e]
    IN  IF ~(li < Len(nd)) THEN stay("needle[i]")
        ELSE IF ~(len < Len(nd)) THEN stay("needle[length]")
        ELSE IF At(nd, li) = At(nd, len)
             THEN IF ~(li < Len(l)) THEN stay("lps[i]")
                  ELSE [lps |-> WriteAt(l, li, len + 1), length |-> len + 1,
                        i |-> li + 1, kind |-> "extend", err |-> "none"]
        ELSE IF len # 0
             THEN IF ~(len - 1 < Len(l)) THEN stay("lps[length-1]")
                  ELSE [lps |-> l, length |-> LpsFallback(l, len),
                        i |-> li, kind |-> "fallback", err |-> "none"]
        ELSE IF ~(li < Len(l)) THEN stay("lps[i]")
             ELSE [lps |-> WriteAt(l, li, 0), length |-> len,
                   i |-> li + 1, kind |-> "zero", err |-> "none"]

(* ----------------------- kmp_search, one iteration -------------------- *)

\* line 22 without the length comparison
BaseCaseNoLength(h, nd) == Len(nd) = 0

\* line 22 without the emptiness test
BaseCaseNoEmpty(h, nd) == Len(h) < Len(nd)

\* line 22: needle.is_empty() || haystack.len() < needle.len()
BaseCase(h, nd) == Len(nd) = 0 \/ Len(h) < Len(nd)

\* lines 35-39: advance both cursors when the current elements are equal
MatchAdvance(h, nd, ci, cj) ==
    IF At(h, ci) = At(nd, cj) THEN [i |-> ci + 1, j |-> cj + 1]
                              ELSE [i |-> ci, j |-> cj]

\* line 44 off by one
MatchStartOffByOne(ci, cj) == ci - cj + 1

\* line 44: i - j
MatchStart(ci, cj) == ci - cj

\* line 44 inserting at the front
PushFront(res, p) == <<p>> \o res

\* line 44: results.push(p)
Push(res, p) == Append(res, p)

\* line 46 restarting the needle after a match
ResumeReset(t, cj) == 0

\* line 46: j = lps_table[j - 1] after a full match
Resume(t, cj) == At(t, cj - 1)

\* line 52 restarting the needle after a mismatch
FallbackReset(t, cj) == 0

\* line 52: j = lps_table[j - 1] after a mismatch
Fallback(t, cj) == At(t, cj - 1)

\* line 55 forgetting to advance
SkipStay(ci) == ci

\* line 55: i += 1
Skip(ci) == ci + 1

\* lines 35-57: the body of the while loop of kmp_search, entered with
\* ci < haystack.len().  rec is <<[i, j]>> with the cursors at the push of
\* line 44 when the iteration pushes, <<>> otherwise.
ScanBody(h, nd, t, ci, cj, res) ==
    LET stay(e) == [i |-> ci, j |-> cj, results |-> res, rec |-> <<>>,
                    kind |-> "panic", err |-> e]
    IN  IF ~(ci < Len(h)) THEN stay("haystack[i]")
        ELSE IF ~(cj < Len(nd)) THEN stay("needle[j]")
        ELSE
        LET a == MatchAdvance(h, nd, ci, cj)
            adv == IF a.i = ci THEN "" ELSE "advance+"
        IN  IF a.j = Len(nd)
            THEN IF a.j > a.i THEN stay("i-j")
                 ELSE IF a.j < 1 THEN stay("j-1")
                 ELSE IF ~(a.j - 1 < Len(t)) THEN stay("lps_table[j-1]")
                 ELSE [i |-> a.i, j |-> Resume(t, a.j),
                       results |-> Push(res, MatchStart(a.i, a.j)),
                       rec |-> <<[i |-> a.i, j |-> a.j]>>,
                       kind |-> "match", err |-> "none"]
            ELSE IF a.i < Len(h)
                 THEN IF ~(a.j < Len(nd)) THEN stay("needle[j]")
                      ELSE IF At(h, a.i) # At(nd, a.j)
                           THEN IF a.j # 0
                                THEN IF ~(a.j - 1 < Len(t)) THEN stay("lps_table[j-1]")
                                     ELSE [i |-> a.i, j |-> Fallback(t, a.j),
                                           results |-> res, rec |-> <<>>,
                                           kind |-> adv \o "fallback", err |-> "none"]
                                ELSE [i |-> Skip(a.i), j |-> a.j,
                                      results |-> res, rec |-> <<>>,
                                      kind |-> "skip", err |-> "none"]
                           ELSE [i |-> a.i, j |-> a.j, results |-> res, rec |-> <<>>,
                                 kind |-> adv \o "none", err |-> "none"]
                 ELSE [i |-> a.i, j |-> a.j, results |-> res, rec |-> <<>>,
                       kind |-> adv \o "none", err |-> "none"]

(* ------------------------------- state -------------------------------- *)

VARIABLES
    top,          \* the function the caller invoked
    pc,           \* position of the running call
    haystack,     \* kmp_search argument
    needle,       \* argument of kmp_search / compute_lps_table
    lps,          \* compute_lps_table: lps
    length,       \* compute_lps_table: length
    lps_i,        \* compute_lps_table: i
    lps_table,    \* kmp_search: lps_table
    results,      \* kmp_search: results
    i,            \* kmp_search: i
    j,            \* kmp_search: j
    err,          \* first out-of-bounds access / underflow, "none" if there is none
    last,         \* branch taken by the latest loop iteration
    recs,         \* history: cursors <<[i, j]>> at every push of line 44
    iters,        \* history: iterations of the scan loop so far
    lps_calls,    \* history: calls of compute_lps_table so far
    fallbacks     \* history: fallback steps of compute_lps_table so far

vars == <<top, pc, haystack, needle, lps, length, lps_i, lps_table, results,
          i, j, err, last, recs, iters, lps_calls, fallbacks>>

lpsVars == <<lps, length, lps_i>>
scanVars == <<lps_table, results, i, j, recs, iters>>

Init ==
    /\ top \in {"kmp_search", "compute_lps_table"}
    /\ IF top = "kmp_search"
       THEN /\ haystack \in SeqsUpTo(Alphabet, MaxHay)
            /\ needle \in SeqsUpTo(Alphabet, MaxNeedle)
            /\ pc = "kmp_search"
       ELSE /\ haystack = <<>>
            /\ needle \in SeqsUpTo(PatAlphabet, MaxPat)
            /\ pc = "compute_lps_table"
    /\ lps = <<>> /\ length = 0 /\ lps_i = 0
    /\ lps_table = <<>> /\ results = <<>> /\ i = 0 /\ j = 0
    /\ err = "none" /\ last = "" /\ recs = <<>>
    /\ iters = 0 /\ lps_calls = 0 /\ fallbacks = 0

(* ------------------------------ actions ------------------------------- *)

\* lines 22-27: the base cases return vec![]; otherwise compute_lps_table is called
kmp_search ==
    /\ pc = "kmp_search"
    /\ IF BaseCase(haystack, needle)
       THEN pc' = "done" /\ results' = <<>>
       ELSE pc' = "compute_lps_table" /\ results' = results
    /\ UNCHANGED <<top, haystack, needle, lpsVars, lps_table, i, j, err, last,
                   recs, iters, lps_calls, fallbacks>>

\* lines 69-76: empty needle returns vec![]; otherwise lps, length and i are set up
compute_lps_table ==
    /\ pc = "compute_lps_table"
    /\ lps_calls' = lps_calls + 1
    /\ IF Len(needle) = 0
       THEN /\ lps' = <<>> /\ pc' = "lps_return"
            /\ UNCHANGED <<length, lps_i>>
       ELSE /\ lps' = Zeros(Len(needle)) /\ length' = 0 /\ lps_i' = 1
            /\ pc' = "lps_loop"
    /\ UNCHANGED <<top, haystack, needle, scanVars, err, last, fallbacks>>

\* lines 79-97: one iteration of the while loop of compute_lps_table
LpsIter ==
    /\ pc = "lps_loop"
    /\ lps_i < Len(needle)
    /\ LET r == LpsBody(needle, lps, length, lps_i)
       IN  /\ lps' = r.lps /\ length' = r.length /\ lps_i' = r.i
           /\ err' = r.err /\ last' = r.kind
           /\ pc' = IF r.err = "none" THEN "lps_loop" ELSE "panic"
           /\ fallbacks' = IF r.kind = "fallback" THEN fallbacks + 1 ELSE fallbacks
    /\ UNCHANGED <<top, haystack, needle, scanVars, lps_calls>>

\* line 79 (loop exit) and line 99
LpsExit ==
    /\ pc = "lps_loop"
    /\ ~(lps_i < Len(needle))
    /\ pc' = "lps_return"
    /\ UNCHANGED <<top, haystack, needle, lpsVars, scanVars, err, last,
                   lps_calls, fallbacks>>

\* the table goes back to the caller; lines 27-31 when the caller is kmp_search
LpsReturn ==
    /\ pc = "lps_return"
    /\ IF top = "kmp_search"
       THEN /\ lps_table' = lps /\ results' = <<>> /\ i' = 0 /\ j' = 0
            /\ pc' = "scan_loop"
       ELSE /\ pc' = "done"
            /\ UNCHANGED <<lps_table, results, i, j>>
    /\ UNCHANGED <<top, haystack, needle, lpsVars, err, last, recs, iters,
                   lps_calls, fallbacks>>

\* lines 34-58: one iteration of the while loop of kmp_search
ScanIter ==
    /\ pc = "scan_loop"
    /\ i < Len(haystack)
    /\ LET r == ScanBody(haystack, needle, lps_table, i, j, results)
       IN  /\ i' = r.i /\ j' = r.j /\ results' = r.results
           /\ recs' = recs \o r.rec
           /\ err' = r.err /\ last' = r.kind
           /\ pc' = IF r.err = "none" THEN "scan_loop" ELSE "panic"
    /\ iters' = iters + 1
    /\ UNCHANGED <<top, haystack, needle, lpsVars, lps_table, lps_calls, fallbacks>>

\* line 34 (loop exit) and line 60
ScanExit ==
    /\ pc = "scan_loop"
    /\ ~(i < Len(haystack))
    /\ pc' = "done"
    /\ UNCHANGED <<top, haystack, needle, lpsVars, scanVars, err, last,
                   lps_calls, fallbacks>>

Next ==
    \/ kmp_search
    \/ compute_lps_table
    \/ LpsIter
    \/ LpsExit
    \/ LpsReturn
    \/ ScanIter
    \/ ScanExit

Spec == Init /\ [][Next]_vars

\* the call is single-threaded and non-suspending: an enabled step is taken
FairSpec == Spec /\ WF_vars(Next)

(* --------------------- reference definitions -------------------------- *)

Range(s) == {s[x] : x \in DOMAIN s}

Max(S) == CHOOSE x \in S : \A y \in S : y <= x

\* haystack[p..p+m] == needle by direct elementwise comparison
Occurs(h, nd, p) ==
    /\ p + Len(nd) <= Len(h)
    /\ \A t \in 0..(Len(nd) - 1) : At(h, p + t) = At(nd, t)

\* every haystack index at which the needle occurs
Occurrences(h, nd) == {p \in 0..(Len(h) - 1) : Occurs(h, nd, p)}

\* the prefix of length b of nd[0..=k] is also its suffix, and is proper
IsBorder(nd, k, b) ==
    /\ b <= k
    /\ \A t \in 0..(b - 1) : At(nd, t) = At(nd, k + 1 - b + t)

LongestBorder(nd, k) == Max({b \in 0..k : IsBorder(nd, k, b)})

StrictlyIncreasing(s) == \A a, b \in DOMAIN s : a < b => s[a] < s[b]

Searching == top = "kmp_search"
Returned == Searching /\ pc = "done"

(* ------------------------------- C1 ----------------------------------- *)

C2_Thm ==
    (Searching /\ pc # "kmp_search"
       /\ (Len(needle) = 0 \/ Len(needle) > Len(haystack)))
    => /\ pc = "done" /\ results = <<>> /\ err = "none"
       /\ lps_calls = 0 /\ lps = <<>> /\ lps_table = <<>>
       /\ iters = 0

C2_Witness ==
    /\ Returned /\ lps_calls = 0 /\ results = <<>>
    /\ Len(needle) > Len(haystack) /\ Len(haystack) > 0

(* ------------------------------- C3 ----------------------------------- *)

C5_Thm ==
    /\ [](StrictlyIncreasing(results))
    /\ [][results' # results =>
            \E p \in 0..Len(haystack) :
                /\ results' = Append(results, p)
                /\ (results # <<>> => p > results[Len(results)])]_vars

C5_Witness ==
    /\ pc = "scan_loop" /\ Len(results) >= 3 /\ StrictlyIncreasing(results)

(* ------------------------------- C6 ----------------------------------- *)

\* C6: no iteration of either loop reads or writes outside the bounds of a
\* slice or underflows an unsigned subtraction.
C6_Thm == err = "none" /\ pc # "panic"

C6_Witness ==
    /\ Returned /\ err = "none"
    /\ iters > Len(haystack) /\ fallbacks > 0 /\ Len(results) > 0

(* ------------------------------- C7 ----------------------------------- *)

\* C7: the table returned by compute_lps_table has the length of the needle
\* and table[k] is the length of the longest proper prefix of needle[0..=k]
\* that is also its suffix; so table[0] = 0 and 0 <= table[k] <= k.
C7_Thm ==
    pc = "lps_return" =>
        /\ Len(lps) = Len(needle)
        /\ \A k \in 0..(Len(needle) - 1) :
               /\ At(lps, k) = LongestBorder(needle, k)
               /\ 0 <= At(lps, k) /\ At(lps, k) <= k
        /\ (needle # <<>> => At(lps, 0) = 0)

C7_Witness ==
    /\ pc = "lps_return" /\ Len(needle) >= 5 /\ fallbacks >= 2
    /\ At(lps, Len(needle) - 1) = LongestBorder(needle, Len(needle) - 1)
    /\ At(lps, Len(needle) - 1) >= 2

(* ------------------------------- C8 ----------------------------------- *)

\* C8: an iteration of the scan loop either advances i by exactly 1, or
\* keeps i and strictly decreases j (from j # 0); the loop ends with
\* i = len(haystack) after at most 2 * len(haystack) iterations.
C8_Thm ==
    /\ [][iters' # iters =>
            \/ i' = i + 1
            \/ (i' = i /\ j' < j /\ j # 0)]_vars
    /\ [](iters <= 2 * Len(haystack))
    /\ []((Returned /\ lps_calls > 0) => i = Len(haystack))
    /\ <>(pc = "done")

C8_Witness ==
    /\ Returned /\ i = Len(haystack) /\ Len(haystack) >= 4
    /\ iters >= 2 * Len(haystack) - 2

(* ------------------------------- C9 ----------------------------------- *)

\* C9: a fallback step of compute_lps_table strictly decreases length and
\* keeps i and the table; length grows by at most 1, and only when i
\* advances; there are at most len(needle) fallback steps and the loop ends.
C9_Thm ==
    /\ [][fallbacks' # fallbacks =>
            /\ length # 0 /\ length' < length
            /\ lps_i' = lps_i /\ lps' = lps]_vars
    /\ [][(pc = "lps_loop" /\ length' > length) =>
            (length' = length + 1 /\ lps_i' = lps_i + 1)]_vars
    /\ [](fallbacks <= Len(needle))
    /\ <>(pc \in {"lps_return", "done"})

C9_Witness ==
    /\ pc = "lps_return" /\ fallbacks >= 3 /\ Len(needle) >= 5

(* ------------------------------- C10 ---------------------------------- *)

\* C10: at the start of every iteration of the scan loop, 0 <= j < m,
\* j <= i <= n, needle[0..j] == haystack[i-j..i], and the partial result
\* holds exactly the occurrences that end at or before i.
C10_Thm ==
    pc = "scan_loop" =>
        LET m == Len(needle)
            n == Len(haystack)
        IN  /\ m > 0 /\ m <= n
            /\ 0 <= j /\ j < m
            /\ j <= i /\ i <= n
            /\ \A t \in 0..(j - 1) : At(needle, t) = At(haystack, i - j + t)
            /\ Range(results) =
                  {p \in 0..n : p + m <= i /\ Occurs(haystack, needle, p)}

C10_Witness ==
    /\ pc = "scan_loop" /\ j >= 2 /\ i < Len(haystack)
    /\ Len(results) >= 1 /\ last = "advance+fallback"


====
